---- MODULE Spec2Model ----
(***************************************************************************)
(* booldec: boolean decision problems lowered to a 0/1 linear model.       *)
(* The module models src/booldec.py: the expression classes and their      *)
(* repr keys, Problem.add_var, Problem.__reform, Problem.add_cons,         *)
(* Problem.solve and Problem.solution.  The PuLP model (self._mip) is kept *)
(* as the list of linear constraints added to it, its objective and its    *)
(* status; the solver is any procedure that returns a maximizing 0/1       *)
(* assignment of a feasible model.                                         *)
(***************************************************************************)
EXTENDS Integers, Sequences, FiniteSets, TLC

VARIABLES
    _vars,      \* self._vars: name -> BoolDec
    _obj,       \* self._obj: name -> objective coefficient
    _conss,     \* self._conss: names of the variables fixed to True
    _mip,       \* self._mip: [constraints, objective, status]
    _mipvars,   \* self._mipvars: name -> the PuLP variable (its varValue)
    client,     \* the calling program: what it declares and what it asserts
    call,       \* the last call made on the Problem, with its arguments
    raised,     \* the exception the last call raised, or NoExc
    ret,        \* what the last call returned
    asserted,   \* history: the expressions add_cons has returned normally for
    refused,    \* history: the expressions add_cons has raised for
    declared    \* history: the names the client's add_var calls have created

vars == <<_vars, _obj, _conss, _mip, _mipvars, client, call, raised, ret,
          asserted, refused, declared>>

----------------------------------------------------------------------------
(* Bounds of the exploration. *)

\* the longest operand list of a connective in the truth-table runs
MaxOperands == 3

----------------------------------------------------------------------------
(* Python values. *)

\* Python's None (a PuLP variable's varValue before any solve)
None == 0 - 1
NoExc == "none"
KeyError == "KeyError"
ValueError == "ValueError"

\* class BoolDec: name and aux
BoolDec(name, aux) == [tag |-> "BoolDec", name |-> name, aux |-> aux]
\* class Not: one operand
Not(operand) == [tag |-> "Not", operand |-> operand]
\* class And: a tuple of operands
And(operands) == [tag |-> "And", operands |-> operands]
\* class Or: a tuple of operands
Or(operands) == [tag |-> "Or", operands |-> operands]
\* a value that is no BoolExpr: the int 5, whose repr is "5"
Int5 == [tag |-> "int", repr |-> "5"]

\* isinstance(expr, BoolExpr)
IsBoolExpr(expr) == expr.tag \in {"BoolDec", "Not", "And", "Or"}

RECURSIVE repr(_), join_repr(_)
\* '_'.join(repr(o) for o in operands)
join_repr(operands) ==
    IF operands = <<>> THEN ""
    ELSE IF Len(operands) = 1 THEN repr(operands[1])
    ELSE repr(operands[1]) \o "_" \o join_repr(Tail(operands))
\* repr(expr): BoolDec.__repr__, Not.__repr__, And.__repr__, Or.__repr__
repr(expr) ==
    CASE expr.tag = "BoolDec" -> expr.name
      [] expr.tag = "Not" -> "Not(" \o repr(expr.operand) \o ")"
      [] expr.tag = "And" -> "And(" \o join_repr(expr.operands) \o ")"
      [] expr.tag = "Or" -> "Or(" \o join_repr(expr.operands) \o ")"
      [] OTHER -> expr.repr

----------------------------------------------------------------------------
(* Linear constraints over PuLP variables: lhs + lc  sense  rhs + rc, where *)
(* lhs and rhs are sequences of <<coefficient, variable name>> terms.        *)

Term(coef, name) == <<coef, name>>
Constraint(lhs, lc, sense, rhs, rc) ==
    [lhs |-> lhs, lc |-> lc, sense |-> sense, rhs |-> rhs, rc |-> rc]

\* (mutant) the auxiliary set equal to its operand, the "1 -" dropped
NotConstraintSame(name, op) ==
    [lhs |-> <<(<<1, name>>)>>, lc |-> 0, sense |-> "==",
     rhs |-> <<(<<1, repr(op)>>)>>, rc |-> 0]
\* self._mipvars[name] == 1 - self._mipvars[repr(op)]
NotConstraint(name, op) ==
    Constraint(<<Term(1, name)>>, 0, "==", <<Term(0 - 1, repr(op))>>, 1)
\* self._mipvars[name] <= self._mipvars[repr(op)]
AndOperandConstraint(name, op) ==
    Constraint(<<Term(1, name)>>, 0, "<=", <<Term(1, repr(op))>>, 0)
\* (mutant) the sum bounded by self._mipvars[name] + len(ops)
AndSumConstraintLoose(name, ops) ==
    [lhs |-> [i \in 1..Len(ops) |-> <<1, repr(ops[i])>>], lc |-> 0, sense |-> "<=",
     rhs |-> <<(<<1, name>>)>>, rc |-> Len(ops)]
\* sum(self._mipvars[repr(op)] for op in ops) <= self._mipvars[name] + len(ops) - 1
AndSumConstraint(name, ops) ==
    Constraint([i \in 1..Len(ops) |-> Term(1, repr(ops[i]))], 0, "<=",
               <<Term(1, name)>>, Len(ops) - 1)
\* self._mipvars[name] >= self._mipvars[repr(op)]
OrOperandConstraint(name, op) ==
    Constraint(<<Term(1, name)>>, 0, ">=", <<Term(1, repr(op))>>, 0)
\* (mutant) the sum bounded below by self._mipvars[name] - 1
OrSumConstraintLoose(name, ops) ==
    [lhs |-> [i \in 1..Len(ops) |-> <<1, repr(ops[i])>>], lc |-> 0, sense |-> ">=",
     rhs |-> <<(<<1, name>>)>>, rc |-> 0 - 1]
\* sum(self._mipvars[repr(op)] for op in ops) >= self._mipvars[name]
OrSumConstraint(name, ops) ==
    Constraint([i \in 1..Len(ops) |-> Term(1, repr(ops[i]))], 0, ">=",
               <<Term(1, name)>>, 0)
\* self._mipvars[name] == 1
FixConstraint(name) ==
    Constraint(<<Term(1, name)>>, 0, "==", <<>>, 1)

RECURSIVE LinValue(_, _)
\* the value of a sum of terms under the 0/1 assignment a
LinValue(terms, a) ==
    IF terms = <<>> THEN 0
    ELSE Head(terms)[1] * a[Head(terms)[2]] + LinValue(Tail(terms), a)

\* whether the assignment a satisfies the constraint c
Satisfies(c, a) ==
    LET l == LinValue(c.lhs, a) + c.lc
        r == LinValue(c.rhs, a) + c.rc
    IN  CASE c.sense = "==" -> l = r
          [] c.sense = "<=" -> l <= r
          [] c.sense = ">=" -> l >= r

\* whether a satisfies every constraint of the list
SatisfiesAll(constraints, a) ==
    \A i \in 1..Len(constraints) : Satisfies(constraints[i], a)

----------------------------------------------------------------------------
(* class Problem.  A Problem value P holds the five attributes; a call     *)
(* returns [P, raised, ret]: the Problem after the call, the exception it  *)
(* raised (NoExc when it returned) and the value it returned.              *)

\* Problem.__init__
NewProblem ==
    [vars |-> <<>>, obj |-> <<>>, conss |-> {},
     mip |-> [constraints |-> <<>>, objective |-> <<>>, status |-> "Not Solved"],
     mipvars |-> <<>>]

Returned(P, value) == [P |-> P, raised |-> NoExc, ret |-> value]
Raised(P, exc) == [P |-> P, raised |-> exc, ret |-> None]

\* self._mip += constraint
AddConstraint(P, c) ==
    [P EXCEPT !.mip.constraints = Append(@, c)]

RECURSIVE AddConstraints(_, _)
\* self._mip += c for each c of cs, in order
AddConstraints(P, cs) ==
    IF cs = <<>> THEN P ELSE AddConstraints(AddConstraint(P, Head(cs)), Tail(cs))

\* (mutant) add_var that leaves the objective table alone
add_var_no_obj(P, name, obj, aux) ==
    IF name \in DOMAIN P.vars
    THEN [P |-> P, raised |-> KeyError, ret |-> None]
    ELSE [P |-> [P EXCEPT !.vars = @ @@ (name :> [tag |-> "BoolDec", name |-> name, aux |-> aux]),
                          !.mipvars = @ @@ (name :> None)],
          raised |-> NoExc,
          ret |-> [tag |-> "BoolDec", name |-> name, aux |-> aux]]
\* (mutant) add_var that stores the coefficient 1 whatever obj is
add_var_unit_obj(P, name, obj, aux) ==
    IF name \in DOMAIN P.vars
    THEN [P |-> P, raised |-> KeyError, ret |-> None]
    ELSE [P |-> [P EXCEPT !.vars = @ @@ (name :> [tag |-> "BoolDec", name |-> name, aux |-> aux]),
                          !.obj = @ @@ (name :> 1),
                          !.mipvars = @ @@ (name :> None)],
          raised |-> NoExc,
          ret |-> [tag |-> "BoolDec", name |-> name, aux |-> aux]]
\* (mutant) add_var without the duplicate check: the entry is overwritten
add_var_overwrite(P, name, obj, aux) ==
    [P |-> [P EXCEPT !.vars = (name :> [tag |-> "BoolDec", name |-> name, aux |-> aux]) @@ @,
                     !.obj = (name :> obj) @@ @,
                     !.mipvars = (name :> None) @@ @],
     raised |-> NoExc,
     ret |-> [tag |-> "BoolDec", name |-> name, aux |-> aux]]
\* Problem.add_var
add_var(P, name, obj, aux) ==
    IF name \in DOMAIN P.vars
    THEN Raised(P, KeyError)
    ELSE LET bd == BoolDec(name, aux)
         IN  Returned([P EXCEPT !.vars = @ @@ (name :> bd),
                                !.obj = @ @@ (name :> obj),
                                !.mipvars = @ @@ (name :> None)],
                      bd)

\* name in self._vars: the expression was already reformulated
AlreadyReformulated(P, name) == name \in DOMAIN P.vars

RECURSIVE __reform(_, _), reform_operands(_, _, _)
\* [self.__reform(o) for o in expr.operands]: left to right, stopping at the
\* first operand that raises
reform_operands(P, operands, ops) ==
    IF operands = <<>> THEN Returned(P, ops)
    ELSE LET r == __reform(P, Head(operands))
         IN  IF r.raised # NoExc THEN r
             ELSE reform_operands(r.P, Tail(operands), Append(ops, r.ret))

\* Problem.__reform
__reform(P, expr) ==
    IF ~IsBoolExpr(expr) THEN Raised(P, ValueError)
    ELSE
    LET name == repr(expr) IN
    IF AlreadyReformulated(P, name) THEN Returned(P, P.vars[name])
    ELSE
    LET added == add_var(P, name, 0, TRUE)
        res == added.ret
    IN  CASE expr.tag = "Not" ->
               LET r == __reform(added.P, expr.operand)
               IN  IF r.raised # NoExc THEN r
                   ELSE Returned(AddConstraint(r.P, NotConstraint(name, r.ret)), res)
          [] expr.tag = "And" ->
               LET r == reform_operands(added.P, expr.operands, <<>>)
               IN  IF r.raised # NoExc THEN r
                   ELSE Returned(
                          AddConstraint(
                            AddConstraints(r.P,
                              [i \in 1..Len(r.ret) |-> AndOperandConstraint(name, r.ret[i])]),
                            AndSumConstraint(name, r.ret)),
                          res)
          [] expr.tag = "Or" ->
               LET r == reform_operands(added.P, expr.operands, <<>>)
               IN  IF r.raised # NoExc THEN r
                   ELSE Returned(
                          AddConstraint(
                            AddConstraints(r.P,
                              [i \in 1..Len(r.ret) |-> OrOperandConstraint(name, r.ret[i])]),
                            OrSumConstraint(name, r.ret)),
                          res)
          [] OTHER -> Returned(added.P, res)

\* (mutant) the assertion set is never consulted
NeverAdded(P, name) == FALSE
\* name in self._conss: the constraint was already added
AlreadyAdded(P, name) == name \in P.conss

RECURSIVE add_cons(_, _)
\* Problem.add_cons
add_cons(P, expr) ==
    IF ~IsBoolExpr(expr) THEN Raised(P, ValueError)
    ELSE
    LET name == repr(expr) IN
    IF AlreadyAdded(P, name) THEN Returned(P, None)
    ELSE IF expr.tag = "BoolDec"
    THEN IF name \notin DOMAIN P.mipvars
         THEN Raised(P, KeyError)
         ELSE Returned([AddConstraint(P, FixConstraint(name))
                          EXCEPT !.conss = @ \cup {name}], None)
    ELSE LET r == __reform(P, expr)
         IN  IF r.raised # NoExc THEN r
             ELSE add_cons(r.P, r.ret)

----------------------------------------------------------------------------
(* Problem.solve and Problem.solution.  The solver is external: it answers *)
(* a feasible model with one of its maximizing 0/1 assignments and status  *)
(* Optimal, and an infeasible one with status Infeasible and whatever      *)
(* values it stopped at.                                                   *)

\* sum(v * self._mipvars[k] for k,v in self._obj.iteritems() if v)
Objective(P) ==
    [k \in {n \in DOMAIN P.obj : P.obj[n] # 0} |-> P.obj[k]]

RECURSIVE ObjectiveSum(_, _, _)
ObjectiveSum(objective, keys, a) ==
    IF keys = {} THEN 0
    ELSE LET k == CHOOSE n \in keys : TRUE
         IN  objective[k] * a[k] + ObjectiveSum(objective, keys \ {k}, a)

\* the value of the objective under the assignment a
ObjectiveValue(objective, a) == ObjectiveSum(objective, DOMAIN objective, a)

\* the 0/1 assignments of the binary variables declared to the solver
Assignments(P) == [DOMAIN P.mipvars -> {0, 1}]

\* the assignments that satisfy every constraint added to self._mip
Feasible(P) == {a \in Assignments(P) : SatisfiesAll(P.mip.constraints, a)}

\* what self._mip.solve() may leave in the variables
SolverAnswers(P) ==
    LET F == Feasible(P)
        objective == Objective(P)
    IN  IF F = {}
        THEN {[status |-> "Infeasible", values |-> a] : a \in Assignments(P)}
        ELSE {[status |-> "Optimal", values |-> a] : a \in
                {a \in F : \A b \in F :
                    ObjectiveValue(objective, a) >= ObjectiveValue(objective, b)}}

\* Problem.solve, the solver answering with the assignment a
solve(P, answer) ==
    Returned([P EXCEPT !.mip.objective = Objective(P),
                       !.mip.status = answer.status,
                       !.mipvars = answer.values],
             answer.status)

\* pulp.value(var) > 0.5; Python 2 orders None below every number
ExceedsHalf(value) == value # None /\ 2 * value > 1

\* (mutant) solution without the "if var.aux: continue"
solution_with_aux(P) ==
    [P |-> P, raised |-> NoExc,
     ret |-> {P.vars[name] : name \in {n \in DOMAIN P.vars : ExceedsHalf(P.mipvars[n])}}]
\* Problem.solution
solution(P) ==
    Returned(P, {P.vars[name] : name \in
                    {n \in DOMAIN P.vars : ~P.vars[n].aux /\ ExceedsHalf(P.mipvars[n])}})

----------------------------------------------------------------------------------------------------------------------------------------
(* The calling programs.  A client is the vocabulary of one program: the   *)
(* add_var calls it can make (name, obj, aux) and the expressions it can   *)
(* hand to add_cons.  It makes these calls, solve and solution in any      *)
(* order and any number of times.                                          *)

Client(decls, exprs) == [decls |-> decls, exprs |-> exprs]

X == BoolDec("x", FALSE)
Y == BoolDec("y", FALSE)
XX == BoolDec("x_x", FALSE)
NotX == BoolDec("Not(x)", FALSE)

\* __main__: x with 2.0, y with 3.0, ~(x & y) and x | ~y
MainClient ==
    Client({<<"x", 2, FALSE>>, <<"y", 3, FALSE>>},
           {Not(And(<<X, Y>>)), Or(<<X, Not(Y)>>)})

\* the same operands in both orders
OrderClient ==
    Client({<<"x", 0, FALSE>>, <<"y", 0, FALSE>>},
           {And(<<X, Y>>), And(<<Y, X>>), Or(<<X, Y>>), Or(<<Y, X>>)})

\* a name that contains the '_' that joins operand keys
UnderscoreClient ==
    Client({<<"x", 0, FALSE>>, <<"x_x", 0, FALSE>>},
           {And(<<XX, X>>), And(<<X, XX>>), And(<<XX>>), And(<<X, X>>)})

\* a name that reads like the key of a compound expression
KeyNameClient ==
    Client({<<"x", 0, FALSE>>, <<"Not(x)", 3, FALSE>>},
           {X, NotX, Not(X)})

\* operands that are no expression
MalformedClient ==
    Client({<<"x", 0, FALSE>>, <<"y", 0, FALSE>>},
           {Int5, And(<<X, Int5>>), Or(<<Not(Y), Int5>>), Not(Y)})

\* leaves asserted directly, a shared subexpression, aux=True passed by the caller
LeafClient ==
    Client({<<"x", 2, FALSE>>, <<"y", 3, TRUE>>, <<"x", 0, TRUE>>},
           {X, Y, Not(X), And(<<Not(X), Not(X)>>)})

Clients ==
    {MainClient, OrderClient, UnderscoreClient, KeyNameClient, MalformedClient,
     LeafClient}

\* the Problem object the state holds
Self ==
    [vars |-> _vars, obj |-> _obj, conss |-> _conss, mip |-> _mip,
     mipvars |-> _mipvars]

Call(op, arg) == [op |-> op, arg |-> arg]

\* the state after a call c that ended as r
Result(c, r) ==
    /\ _vars' = r.P.vars
    /\ _obj' = r.P.obj
    /\ _conss' = r.P.conss
    /\ _mip' = r.P.mip
    /\ _mipvars' = r.P.mipvars
    /\ call' = c
    /\ raised' = r.raised
    /\ ret' = r.ret
    /\ asserted' = IF c.op = "add_cons" /\ r.raised = NoExc
                   THEN asserted \cup {c.arg} ELSE asserted
    /\ refused' = IF c.op = "add_cons" /\ r.raised # NoExc
                  THEN refused \cup {c.arg} ELSE refused
    /\ declared' = IF c.op = "add_var" /\ r.raised = NoExc
                   THEN declared \cup {c.arg[1]} ELSE declared
    /\ UNCHANGED client

\* p = Problem()
Constructed ==
    /\ _vars = NewProblem.vars
    /\ _obj = NewProblem.obj
    /\ _conss = NewProblem.conss
    /\ _mip = NewProblem.mip
    /\ _mipvars = NewProblem.mipvars
    /\ call = Call("__init__", <<>>)
    /\ raised = NoExc
    /\ ret = None
    /\ asserted = {}
    /\ refused = {}
    /\ declared = {}

Init == client \in Clients /\ Constructed

AddVar ==
    \E d \in client.decls :
        Result(Call("add_var", d), add_var(Self, d[1], d[2], d[3]))

AddCons ==
    \E expr \in client.exprs :
        Result(Call("add_cons", expr), add_cons(Self, expr))

Solve ==
    \E a \in SolverAnswers(Self) :
        Result(Call("solve", <<>>), solve(Self, a))

Solution ==
    Result(Call("solution", <<>>), solution(Self))

Next == AddVar \/ AddCons \/ Solve \/ Solution

Spec == Init /\ [][Next]_vars

----------------------------------------------------------------------------
(* The truth-table runs: a client that declares the operands of one        *)
(* connective and has that connective reformulated, __reform being called  *)
(* on its own (no variable is fixed).                                      *)

\* the variable names of the truth-table runs
Names == {"x", "y", "x_x"}

\* the operand lists of 1 to MaxOperands declared decisions, repeats included
OperandLists ==
    UNION {[1..n -> {BoolDec(name, FALSE) : name \in Names}] : n \in 1..MaxOperands}

\* Not(v), And(v1..vn) and Or(v1..vn) over decisions
Connectives ==
    {Not(BoolDec(name, FALSE)) : name \in Names}
        \cup {And(ops) : ops \in OperandLists}
        \cup {Or(ops) : ops \in OperandLists}

RECURSIVE LeafNames(_)
\* the names of the BoolDec leaves of an expression
LeafNames(expr) ==
    CASE expr.tag = "BoolDec" -> {expr.name}
      [] expr.tag = "Not" -> LeafNames(expr.operand)
      [] expr.tag \in {"And", "Or"} ->
           UNION {LeafNames(expr.operands[i]) : i \in 1..Len(expr.operands)}
      [] OTHER -> {}

TruthTableClients ==
    {Client({<<name, 0, FALSE>> : name \in LeafNames(expr)}, {expr}) :
        expr \in Connectives}

InitEnc == client \in TruthTableClients /\ Constructed

\* p._Problem__reform(expr)
Reform ==
    \E expr \in client.exprs :
        Result(Call("__reform", expr), __reform(Self, expr))

NextEnc == AddVar \/ Reform

SpecEnc == InitEnc /\ [][NextEnc]_vars

----------------------------------------------------------------------------
(* Boolean semantics of expressions, the reference the claims compare to. *)

RECURSIVE Value(_, _)
\* the truth value of expr when each leaf has the value a gives its name
Value(expr, a) ==
    CASE expr.tag = "BoolDec" -> a[expr.name] = 1
      [] expr.tag = "Not" -> ~Value(expr.operand, a)
      [] expr.tag = "And" -> \A i \in 1..Len(expr.operands) : Value(expr.operands[i], a)
      [] expr.tag = "Or" -> \E i \in 1..Len(expr.operands) : Value(expr.operands[i], a)

Bit(b) == IF b THEN 1 ELSE 0

\* every leaf of expr is in the table as a decision the caller declared
LeavesDeclared(expr) ==
    \A name \in LeafNames(expr) : name \in DOMAIN _vars /\ ~_vars[name].aux

----------------------------------------------------------------------------
(* C1: for a single connective Not(v), And(v1..vn) or Or(v1..vn), n >= 1,  *)
(* reformulated over declared decisions (operands may repeat), and for     *)
(* every 0/1 assignment to the operands, exactly one 0/1 value of the      *)
(* auxiliary variable satisfies the emitted constraints, and it is the     *)
(* connective's truth-table value.                                         *)
TruthTable ==
    \A expr \in client.exprs :
        (call = Call("__reform", expr) /\ raised = NoExc /\ LeavesDeclared(expr)) =>
            \A a \in [LeafNames(expr) -> {0, 1}] :
                {b \in {0, 1} : SatisfiesAll(_mip.constraints, a @@ (repr(expr) :> b))}
                    = {Bit(Value(expr, a))}

\* an And of three operands, two of them the same variable, was reformulated
TruthTableWitness ==
    \E expr \in client.exprs :
        /\ call = Call("__reform", expr)
        /\ raised = NoExc
        /\ LeavesDeclared(expr)
        /\ expr.tag = "And"
        /\ Len(expr.operands) = 3
        /\ expr.operands[1] = expr.operands[2]
        /\ expr.operands[1] # expr.operands[3]
        /\ Len(_mip.constraints) = 4

----------------------------------------------------------------------------
(* Helpers of the claims about the calls of a client. *)

RECURSIVE WellFormed(_)
\* expr is a tree of Not/And/Or nodes over BoolDec leaves
WellFormed(expr) ==
    CASE expr.tag = "BoolDec" -> TRUE
      [] expr.tag = "Not" -> WellFormed(expr.operand)
      [] expr.tag \in {"And", "Or"} ->
           \A i \in 1..Len(expr.operands) : WellFormed(expr.operands[i])
      [] OTHER -> FALSE

IsCompound(expr) == expr.tag \in {"Not", "And", "Or"}

RECURSIVE CompoundSubexprs(_)
\* the Not/And/Or nodes of a well-formed tree, the root included
CompoundSubexprs(expr) ==
    CASE expr.tag = "Not" -> {expr} \cup CompoundSubexprs(expr.operand)
      [] expr.tag \in {"And", "Or"} ->
           {expr} \cup UNION {CompoundSubexprs(expr.operands[i]) :
                                 i \in 1..Len(expr.operands)}
      [] OTHER -> {}

\* how many times c occurs in the sequence cs
Count(cs, c) == Cardinality({i \in 1..Len(cs) : cs[i] = c})

\* the constraints lines 47-66 emit for one node, from the keys of its operands
DefiningConstraints(expr) ==
    LET name == repr(expr)
    IN  CASE expr.tag = "Not" ->
               <<[lhs |-> <<(<<1, name>>)>>, lc |-> 0, sense |-> "==",
                  rhs |-> <<(<<0 - 1, repr(expr.operand)>>)>>, rc |-> 1]>>
          [] expr.tag = "And" ->
               [i \in 1..Len(expr.operands) |->
                   [lhs |-> <<(<<1, name>>)>>, lc |-> 0, sense |-> "<=",
                    rhs |-> <<(<<1, repr(expr.operands[i])>>)>>, rc |-> 0]]
               \o <<[lhs |-> [i \in 1..Len(expr.operands) |-> <<1, repr(expr.operands[i])>>],
                     lc |-> 0, sense |-> "<=",
                     rhs |-> <<(<<1, name>>)>>, rc |-> Len(expr.operands) - 1]>>
          [] expr.tag = "Or" ->
               [i \in 1..Len(expr.operands) |->
                   [lhs |-> <<(<<1, name>>)>>, lc |-> 0, sense |-> ">=",
                    rhs |-> <<(<<1, repr(expr.operands[i])>>)>>, rc |-> 0]]
               \o <<[lhs |-> [i \in 1..Len(expr.operands) |-> <<1, repr(expr.operands[i])>>],
                     lc |-> 0, sense |-> ">=",
                     rhs |-> <<(<<1, name>>)>>, rc |-> 0]>>

\* the equality 'v = 1' for the variable keyed name
IsFix(c, name) ==
    c = [lhs |-> <<(<<1, name>>)>>, lc |-> 0, sense |-> "==", rhs |-> <<>>, rc |-> 1]

\* how many equalities 'v = 1' the model holds for the key name
FixCount(name) ==
    Cardinality({i \in 1..Len(_mip.constraints) : IsFix(_mip.constraints[i], name)})

----------------------------------------------------------------------------
(* C2: after any sequence of add_var and add_cons calls (names being       *)
(* arbitrary strings), reformulating a non-Decision tree whose leaves are  *)
(* declared decisions returns a variable whose value, in every 0/1         *)
(* assignment satisfying all constraints emitted so far, is the boolean    *)
(* value of the tree under that assignment.                                *)
ReformReturnsValue ==
    \A expr \in client.exprs :
        (IsCompound(expr) /\ WellFormed(expr) /\ LeavesDeclared(expr)
            /\ _mip.status = "Not Solved") =>
            LET r == __reform(Self, expr)
            IN  /\ r.raised = NoExc
                /\ \A a \in Feasible(r.P) : a[r.ret.name] = Bit(Value(expr, a))

----------------------------------------------------------------------------
(* C3: memoization: reformulating an expression whose key is in the table  *)
(* returns that variable and adds no variable and no constraint; so after  *)
(* any sequence of successful add_cons calls each compound subexpression   *)
(* key has exactly one auxiliary variable and exactly one defining         *)
(* constraint set (1 equality for Not, n+1 inequalities for And/Or).       *)
OneDefinitionPerKey ==
    /\ \A expr \in client.exprs :
          (WellFormed(expr) /\ repr(expr) \in DOMAIN _vars) =>
              __reform(Self, expr) = Returned(Self, _vars[repr(expr)])
    /\ refused = {} =>
          \A expr \in {e \in asserted : LeavesDeclared(e)} :
          \A sub \in CompoundSubexprs(expr) :
              /\ repr(sub) \in DOMAIN _vars
              /\ _vars[repr(sub)].aux
              /\ LET defs == DefiningConstraints(sub)
                 IN  \A i \in 1..Len(defs) :
                        Count(_mip.constraints, defs[i]) = Count(defs, defs[i])

----------------------------------------------------------------------------
(* C4: a second add_cons(e) after a first successful add_cons(e) raises    *)
(* nothing and leaves the variable table, the constraint list and the      *)
(* assertion set unchanged; the model never holds more than one equality   *)
(* 'v = 1' per variable key.                                               *)
AssertionIdempotent ==
    /\ [][(call'.op = "add_cons" /\ call'.arg \in asserted) =>
             (/\ raised' = NoExc
              /\ _vars' = _vars
              /\ _mip'.constraints = _mip.constraints
              /\ _conss' = _conss)]_vars
    /\ [](\A name \in DOMAIN _vars : FixCount(name) <= 1)

\* ~(x & y) is asserted again after a solve that already knew its variable
AssertionIdempotentWitness ==
    /\ client = MainClient
    /\ call = Call("add_cons", Not(And(<<X, Y>>)))
    /\ raised = NoExc
    /\ _mipvars["Not(And(x_y))"] # None
    /\ FixCount("Not(And(x_y))") = 1

----------------------------------------------------------------------------
(* C5: when add_cons raises because the expression is malformed (the       *)
(* argument or an operand anywhere in the tree is no expression node), the *)
(* variable table, objective table, constraint list and assertion set are  *)
(* what they were before the call.                                         *)
MalformedLeavesNoTrace ==
    [][(/\ call'.op = "add_cons" /\ ~WellFormed(call'.arg) /\ raised' # NoExc
        /\ LeavesDeclared(call'.arg)) =>
          (/\ _vars' = _vars
           /\ _obj' = _obj
           /\ _mip'.constraints = _mip.constraints
           /\ _conss' = _conss)]_vars

----------------------------------------------------------------------------
(* C6: the canonical key is injective on expression structure: two nodes   *)
(* over Decision leaves with arbitrary names that differ in variant,       *)
(* operand count or an operand have different keys.                        *)
KeyInjective ==
    \A e1 \in asserted, e2 \in client.exprs :
        (WellFormed(e1) /\ WellFormed(e2) /\ repr(e1) = repr(e2)) => e1 = e2

----------------------------------------------------------------------------
(* C7: for declared decisions A and B with different names, A & B and      *)
(* B & A have different keys, and asserting both creates two distinct      *)
(* auxiliary variables, each with its own constraint set (also for |).     *)
OperandOrderDistinct ==
    \A nameA \in DOMAIN _vars, nameB \in DOMAIN _vars :
        \A tag \in {"And", "Or"} :
            LET A == BoolDec(nameA, FALSE)
                B == BoolDec(nameB, FALSE)
                AB == [tag |-> tag, operands |-> <<A, B>>]
                BA == [tag |-> tag, operands |-> <<B, A>>]
            IN  (nameA # nameB /\ LeavesDeclared(AB)) =>
                    /\ repr(AB) # repr(BA)
                    /\ {AB, BA} \subseteq asserted =>
                          /\ _vars[repr(AB)].aux /\ _vars[repr(BA)].aux
                          /\ _vars[repr(AB)] # _vars[repr(BA)]
                          /\ \A i \in 1..3 :
                                /\ Count(_mip.constraints, DefiningConstraints(AB)[i]) = 1
                                /\ Count(_mip.constraints, DefiningConstraints(BA)[i]) = 1

----------------------------------------------------------------------------
(* C8: add_var with a name already in the variable table raises the        *)
(* duplicate-name error and leaves the variable table, objective table,    *)
(* solver-variable table, constraint list and assertion set unchanged,     *)
(* whether the entry was declared by the caller or created by              *)
(* reformulation.                                                          *)
DuplicateNameRejected ==
    [][(call'.op = "add_var" /\ call'.arg[1] \in DOMAIN _vars) =>
          (/\ raised' = KeyError
           /\ _vars' = _vars
           /\ _obj' = _obj
           /\ _mipvars' = _mipvars
           /\ _mip' = _mip
           /\ _conss' = _conss)]_vars

\* add_var('Not(x)') was refused because asserting ~x had created that variable
DuplicateNameRejectedWitness ==
    /\ call = Call("add_var", <<"Not(x)", 3, FALSE>>)
    /\ raised = KeyError
    /\ _vars["Not(x)"].aux
    /\ _obj["Not(x)"] = 0
    /\ Not(X) \in asserted

----------------------------------------------------------------------------
(* C9: after any sequence of add_var, add_cons and solve calls, the set    *)
(* solution() returns holds no variable flagged auxiliary, whatever its    *)
(* value; it holds exactly the non-auxiliary variables whose value exceeds *)
(* 0.5.                                                                    *)
SolutionExcludesAux ==
    call.op = "solution" =>
        /\ \A v \in ret : ~v.aux /\ v.name \in DOMAIN _vars /\ v = _vars[v.name]
        /\ \A name \in DOMAIN _vars :
              (_vars[name] \in ret) <=>
                  (~_vars[name].aux /\ _mipvars[name] # None /\ 2 * _mipvars[name] > 1)

\* solution() left out an auxiliary variable the solver had set to 1
SolutionExcludesAuxWitness ==
    /\ call.op = "solution"
    /\ ret # {}
    /\ \E name \in DOMAIN _vars : _vars[name].aux /\ _mipvars[name] = 1

----------------------------------------------------------------------------
(* C10: after add_var('x', 2.0), add_var('y', 3.0), add_cons(~(x & y)),    *)
(* add_cons(x | ~y) the 0/1 model is feasible, its only maximizing         *)
(* assignment has x = 1 and y = 0 with objective value 2.0, and solution() *)
(* is exactly {x}.                                                         *)

\* the Problem that lines 176-180 of __main__ build
MainProblem ==
    LET p0 == NewProblem
        p1 == add_var(p0, "x", 2, FALSE).P
        p2 == add_var(p1, "y", 3, FALSE).P
        p3 == add_cons(p2, Not(And(<<X, Y>>))).P
    IN  add_cons(p3, Or(<<X, Not(Y)>>)).P

\* the state holds the Problem __main__ builds (the solver's values apart)
InMainProblem ==
    /\ _vars = MainProblem.vars
    /\ _obj = MainProblem.obj
    /\ _conss = MainProblem.conss
    /\ _mip.constraints = MainProblem.mip.constraints

\* the maximizing assignments of the model the state holds
Optima ==
    {answer.values : answer \in {s \in SolverAnswers(Self) : s.status = "Optimal"}}

MainScenario ==
    InMainProblem =>
        /\ Feasible(Self) # {}
        /\ Cardinality(Optima) = 1
        /\ \A a \in Optima : a["x"] = 1 /\ a["y"] = 0 /\ 2 * a["x"] + 3 * a["y"] = 2
        /\ call.op = "solve" =>
              ret = "Optimal" /\ _mipvars["x"] = 1 /\ _mipvars["y"] = 0
        /\ (call.op = "solution" /\ \A name \in DOMAIN _mipvars : _mipvars[name] # None) =>
              ret = {BoolDec("x", FALSE)}

\* __main__ ran to its end: solved, and solution() returned {x}
MainScenarioWitness ==
    /\ InMainProblem
    /\ _mip.status = "Optimal"
    /\ call.op = "solution"
    /\ ret = {BoolDec("x", FALSE)}
    /\ _mipvars["Not(y)"] = 1

----------------------------------------------------------------------------
(* C11: for a declared decision x, once add_cons(x) and add_cons(~x) have  *)
(* both been called (in either order, other declarations and assertions    *)
(* interleaved), no 0/1 assignment satisfies all emitted constraints.      *)
ContradictionInfeasible ==
    \A name \in declared :
        LET x == BoolDec(name, FALSE)
        IN  ({x, Not(x)} \subseteq asserted) => Feasible(Self) = {}

----------------------------------------------------------------------------
(* C12: after any sequence of public operations (add_var with any          *)
(* arguments, add_cons, solve) every variable flagged auxiliary has        *)
(* objective coefficient 0, so none appears in the objective of solve().   *)
AuxCoefficientZero ==
    \A name \in DOMAIN _vars :
        _vars[name].aux => (_obj[name] = 0 /\ name \notin DOMAIN _mip.objective)

(* C12 as amended: every variable that reformulation created (one no       *)
(* add_var call of the caller created) is flagged auxiliary, has           *)
(* coefficient 0 and is not in the objective of solve(); an auxiliary      *)
(* variable has a nonzero coefficient only when the caller declared it     *)
(* with aux=True and that coefficient.                                     *)
ReformAuxCoefficientZero ==
    \A name \in DOMAIN _vars :
        /\ name \notin declared =>
              (_vars[name].aux /\ _obj[name] = 0 /\ name \notin DOMAIN _mip.objective)
        /\ (_vars[name].aux /\ _obj[name] # 0) =>
              (name \in declared /\ <<name, _obj[name], TRUE>> \in client.decls)

\* solve() built an objective with the caller's auxiliary y in it and
\* without the auxiliary of ~x
ReformAuxCoefficientZeroWitness ==
    /\ call.op = "solve"
    /\ "Not(x)" \in DOMAIN _vars
    /\ "Not(x)" \notin declared
    /\ "y" \in declared
    /\ _vars["y"].aux
    /\ DOMAIN _mip.objective = {"x", "y"}

----------------------------------------------------------------------------
\* the positions of the equalities 'v = 1' in the sequence cs
Fixes(cs) ==
    {i \in 1..Len(cs) : Len(cs[i].lhs) = 1 /\ IsFix(cs[i], cs[i].lhs[1][2])}

(* C13: add_cons with an invalid expression (a non-expression, or a        *)
(* compound with a non-expression operand somewhere in it) raises          *)
(* ValueError on every call, whatever calls preceded it: it never returns  *)
(* normally and never fixes a variable to 1.                               *)
InvalidAlwaysRefused ==
    [][(/\ call'.op = "add_cons" /\ ~WellFormed(call'.arg)
        /\ LeavesDeclared(call'.arg)) =>
          (/\ raised' = ValueError
           /\ Fixes(_mip'.constraints) = Fixes(_mip.constraints))]_vars

----------------------------------------------------------------------------
(* C14: every successful add_cons(e) for a compound e that was not         *)
(* asserted before adds exactly one equality 'v = 1', where v is the       *)
(* variable keyed by e's key and flagged auxiliary; it fixes no other      *)
(* variable and adds that key to the assertion set.                        *)
CompoundAssertionFixesItsAux ==
    [][(/\ call'.op = "add_cons" /\ raised' = NoExc
        /\ WellFormed(call'.arg) /\ IsCompound(call'.arg)
        /\ refused = {}
        /\ \A e \in asserted \cup {call'.arg} : LeafNames(e) \subseteq declared
        /\ call'.arg \notin asserted) =>
          LET key == repr(call'.arg)
              last == Len(_mip'.constraints)
          IN  /\ Fixes(_mip'.constraints) \ Fixes(_mip.constraints) = {last}
              /\ IsFix(_mip'.constraints[last], key)
              /\ key \in DOMAIN _vars'
              /\ _vars'[key].aux
              /\ _conss' = _conss \cup {key}]_vars

----------------------------------------------------------------------------
\* the keys of the variables the constraint c refers to
ConstraintNames(c) ==
    {c.lhs[i][2] : i \in 1..Len(c.lhs)} \cup {c.rhs[i][2] : i \in 1..Len(c.rhs)}

\* the keys of the Not/And/Or nodes of the expressions in es
CompoundKeys(es) == {repr(s) : s \in UNION {CompoundSubexprs(e) : e \in es}}

(* C15: reformulation never creates an auxiliary variable for a Decision   *)
(* leaf: every variable an add_cons call creates is keyed by a compound    *)
(* (Not/And/Or) node of its argument, and every variable an emitted        *)
(* constraint refers to is a decision the caller declared or such a        *)
(* compound auxiliary, also when a leaf was never declared with add_var.   *)
ReformNeverCreatesLeafAux ==
    [][(call'.op = "add_cons" /\ WellFormed(call'.arg)) =>
          /\ DOMAIN _vars' \ DOMAIN _vars \subseteq CompoundKeys({call'.arg})
          /\ \A i \in 1..Len(_mip'.constraints) :
                \A name \in ConstraintNames(_mip'.constraints[i]) :
                    \/ name \in declared
                    \/ /\ name \in DOMAIN _vars'
                       /\ _vars'[name].aux
                       /\ name \in CompoundKeys(client.exprs)]_vars

----------------------------------------------------------------------------
\* the names of the vocabulary without '_', '(' and ')'
SimpleNames == {"x", "y"}

\* every add_cons so far returned normally, on a tree over decisions the
\* caller had declared, and every declared name is simple
OnlySoundCalls ==
    /\ refused = {}
    /\ declared \subseteq SimpleNames
    /\ \A e \in asserted : WellFormed(e) /\ LeafNames(e) \subseteq declared

\* the feasible 0/1 assignments that agree with u on the declared decisions
Extensions(u) == {a \in Feasible(Self) : \A name \in declared : a[name] = u[name]}

(* C16: when all names are simple (no '_', '(' or ')') and every add_cons  *)
(* call succeeded on a tree over declared decisions, a 0/1 assignment to   *)
(* the declared decisions extends to an assignment of the auxiliaries that *)
(* satisfies all emitted constraints if and only if every asserted         *)
(* expression is true under it, and then the extension is unique.          *)
EncodingSoundComplete ==
    (call.op = "add_cons" /\ OnlySoundCalls) =>
        \A u \in [declared -> {0, 1}] :
            IF \A e \in asserted : Value(e, u)
            THEN Cardinality(Extensions(u)) = 1
            ELSE Extensions(u) = {}

\* both assertions of the example program are in: x = 1, y = 0 has its one
\* extension, x = 1, y = 1 has none
EncodingSoundCompleteWitness ==
    /\ call.op = "add_cons"
    /\ OnlySoundCalls
    /\ declared = {"x", "y"}
    /\ asserted = MainClient.exprs
    /\ Cardinality(Extensions([x |-> 1, y |-> 0])) = 1
    /\ Extensions([x |-> 1, y |-> 1]) = {}

----------------------------------------------------------------------------
(* C17: after any sequence of add_var, add_cons and solve calls, raising   *)
(* ones included, _vars, _obj and _mipvars have the same key set and every *)
(* key of _conss is a key of _vars; no operation removes a variable or     *)
(* changes the aux flag or the objective coefficient of an existing one.   *)
TablesInStep ==
    /\ [](/\ DOMAIN _vars = DOMAIN _obj
          /\ DOMAIN _obj = DOMAIN _mipvars
          /\ _conss \subseteq DOMAIN _vars)
    /\ [][\A name \in DOMAIN _vars :
              /\ name \in DOMAIN _vars'
              /\ _vars'[name].aux = _vars[name].aux
              /\ _obj'[name] = _obj[name]]_vars

\* an add_cons has just raised after a solve, and left an auxiliary behind
TablesInStepWitness ==
    /\ call.op = "add_cons"
    /\ raised = ValueError
    /\ _mip.status # "Not Solved"
    /\ _conss # {}
    /\ DOMAIN _vars \ (declared \cup _conss) # {}

====
